---- MODULE Spec2Model ----
(***************************************************************************)
(* Model of the wallet service layer of near-wallet:                       *)
(*   packages/frontend/src/services/FungibleTokens.js  (FungibleTokens)    *)
(*   packages/frontend/src/utils/twoFactor.js          (TwoFactor)         *)
(*                                                                         *)
(* One call runs at a time (single-threaded promise code); every await of  *)
(* an external call is a step of its own.  External calls (view calls,     *)
(* transaction submission, HTTP posts, the redux dispatch) answer          *)
(* nondeterministically: they return a value or throw an error carrying a  *)
(* message.                                                                *)
(***************************************************************************)
EXTENDS Integers, Sequences, FiniteSets, TLC

VARIABLES
    pc,             \* position of the running call ("idle" when none ran yet)
    args,           \* arguments of the running call
    txs,            \* transactions handed to the account during this call
    storageStatus,  \* what storage_balance_of answered during this call
    registration,   \* what checkRegistration returned during this call
    isStorageTransferRequired,  \* local of transfer / getEstimatedTotalFees
    isRegistrationRequired,     \* local of transfer / getEstimatedTotalFees
    gasPrice,       \* the gas price the oracle used during this call
    result,         \* how the call ended: returned a value or threw
    has2fa,         \* TwoFactor.has2fa
    request,        \* the pending multisig request kept in localStorage
    posts,          \* signed posts to the helper service during this call
    dispatched,     \* refreshAccount dispatches during this call
    accountState,   \* what account.state() answers during get2faMethod
    delegated,      \* whether super.get2faMethod() was called in this call
    isLedgerEnabled,    \* what wallet.isLedgerEnabled() answered in this call
    has2faBefore,   \* has2fa when the running call began
    requestBefore   \* the pending request when the running call began

vars == <<pc, args, txs, storageStatus, registration, isStorageTransferRequired,
          isRegistrationRequired, gasPrice, result, has2fa, request, posts,
          dispatched, accountState, delegated, isLedgerEnabled, has2faBefore,
          requestBefore>>

(***************************************************************************)
(* Bounds of the model.                                                    *)
(***************************************************************************)
MaxMsgLen == 2
MaxAmount == 1
MaxGasPrice == 3
MaxRequestId == 1

(***************************************************************************)
(* Error messages.  A message is a sequence of fragments; the fragment     *)
(* DEPOSIT_LESS stands for the text 'attached deposit is less than' and    *)
(* TOO_LARGE for 'too large to be viewed'.  String.prototype.includes is   *)
(* the search for a contiguous sub-sequence.                               *)
(***************************************************************************)
Fragments == {"DEPOSIT_LESS", "TOO_LARGE", "other"}

RECURSIVE SeqsUpTo(_, _)
SeqsUpTo(S, n) ==
    IF n = 0 THEN {<<>>}
    ELSE LET shorter == SeqsUpTo(S, n - 1)
         IN  shorter \cup {Append(s, x) : s \in shorter, x \in S}

Messages == SeqsUpTo(Fragments, MaxMsgLen)

includes(msg, sub) ==
    \E i \in 0..(Len(msg) - Len(sub)) : SubSeq(msg, i + 1, i + Len(sub)) = sub

DepositLessThan == <<"DEPOSIT_LESS">>
TooLargeToBeViewed == <<"TOO_LARGE">>
WaitFifteenMinutes == <<"WAIT_15_MINUTES">>
LedgerEnabledMessage == <<"LEDGER_ENABLED">>

(***************************************************************************)
(* Outcome of an awaited external call.                                    *)
(***************************************************************************)
Ok == [ok |-> TRUE, msg |-> <<>>]
Failed(m) == [ok |-> FALSE, msg |-> m]
Outcomes == {Ok} \cup {Failed(m) : m \in Messages}

(***************************************************************************)
(* Configuration constants (../config).  Gas in Tgas, deposits in units of *)
(* 0.00001 NEAR, except TOKEN_TRANSFER_DEPOSIT which is the one-yocto      *)
(* deposit of ft_transfer.  NoDeposit is functionCall's absent deposit.    *)
(***************************************************************************)
TOKEN_TRANSFER_DEPOSIT == 1
FT_TRANSFER_GAS == 30
FT_STORAGE_DEPOSIT_GAS == 30
FT_MINIMUM_STORAGE_BALANCE == 125
FT_MINIMUM_STORAGE_BALANCE_LARGE == 1250
FT_REGISTRATION_DEPOSIT == 10000
FT_REGISTRATION_DEPOSIT_GAS == 30
SEND_NEAR_GAS == 45
WRAP_STORAGE_DEPOSIT == 125
NoDeposit == 0
NEAR_TOKEN_ID == "wrap.near"

Senders == {"alice"}
Receivers == {"bob", "carol"}
Contracts == {"none", "token"}
Memos == {"none", "memo"}
Amounts == 1..MaxAmount

(***************************************************************************)
(* JavaScript values answered by the view calls.                           *)
(***************************************************************************)
\* check_registration: a JSON value, or the call throws
RegistrationAnswers == {"true", "false", "null", "undefined", "0", "throw"}
\* storage_balance_of: null, or an object whose `total` may be absent
StorageAnswers ==
    {[kind |-> "throw", total |-> "undefined"],
     [kind |-> "null", total |-> "undefined"],
     [kind |-> "object", total |-> "undefined"],
     [kind |-> "object", total |-> "null"],
     [kind |-> "object", total |-> "125"]}
Unset == [kind |-> "unset", total |-> "undefined"]

\* functionCall(methodName, args, gas, deposit)
functionCall(methodName, a, gas, deposit) ==
    [methodName |-> methodName, args |-> a, gas |-> gas, deposit |-> deposit]

Tx(receiverId, actions) ==
    [receiverId |-> receiverId, actions |-> actions, status |-> "pending",
     msg |-> <<>>]

Settled(tx, o) ==
    [tx EXCEPT !.status = IF o.ok THEN "ok" ELSE "failed", !.msg = o.msg]

SettleLast(log, o) == [log EXCEPT ![Len(log)] = Settled(log[Len(log)], o)]

Returned(v) == [kind |-> "returned", value |-> v, msg |-> <<>>]
Threw(m) == [kind |-> "threw", value |-> "none", msg |-> m]
NoResult == [kind |-> "none", value |-> "none", msg |-> <<>>]

NoArgs == [op |-> "none"]

(***************************************************************************)
(* FungibleTokens: pure parts.                                             *)
(***************************************************************************)
\* checkRegistration: the view call's answer, or null when it throws
checkRegistration(answer) == IF answer = "throw" THEN "null" ELSE answer

isAccountUnregistered_falsy(answer) ==
    checkRegistration(answer) \in {"false", "null", "undefined", "0"}

\* isAccountUnregistered: (await checkRegistration(...)) === false
isAccountUnregistered(answer) == checkRegistration(answer) = "false"


\* storageBalance?.total
OptionalTotal(storageBalance) ==
    IF storageBalance.kind \in {"null", "undefined"} THEN "undefined"
    ELSE storageBalance.total

isStorageDepositRequired_failClosed(answer) ==
    IF answer.kind = "throw" THEN TRUE
    ELSE OptionalTotal(answer) = "undefined"

\* isStorageDepositRequired: try { total === undefined } catch { false }
isStorageDepositRequired(answer) ==
    IF answer.kind = "throw" THEN FALSE
    ELSE OptionalTotal(answer) = "undefined"

\* the catch clause of transfer: e.message.includes('attached deposit is less than')
retryWithLargeDeposit_always(msg) == TRUE

retryWithLargeDeposit(msg) == includes(msg, DepositLessThan)

\* getTotalGasFee (../utils/gasPrice): the gas budget priced by the oracle
getTotalGasFee(gas, price) == price * gas

EstimatedTotalFees_storageFirst(both, contractGiven, regRequired, storRequired, price) ==
    IF both /\ storRequired
    THEN getTotalGasFee(FT_TRANSFER_GAS + FT_STORAGE_DEPOSIT_GAS, price)
            + FT_MINIMUM_STORAGE_BALANCE
    ELSE IF both /\ regRequired
    THEN getTotalGasFee(FT_TRANSFER_GAS + FT_REGISTRATION_DEPOSIT_GAS, price)
            + FT_REGISTRATION_DEPOSIT
    ELSE getTotalGasFee(IF contractGiven THEN FT_TRANSFER_GAS ELSE SEND_NEAR_GAS, price)

\* getEstimatedTotalFees once both checks and the gas price are known
EstimatedTotalFees(both, contractGiven, regRequired, storRequired, price) ==
    IF both /\ regRequired
    THEN getTotalGasFee(FT_TRANSFER_GAS + FT_REGISTRATION_DEPOSIT_GAS, price)
            + FT_REGISTRATION_DEPOSIT
    ELSE IF both /\ storRequired
    THEN getTotalGasFee(FT_TRANSFER_GAS + FT_STORAGE_DEPOSIT_GAS, price)
            + FT_MINIMUM_STORAGE_BALANCE
    ELSE getTotalGasFee(IF contractGiven THEN FT_TRANSFER_GAS ELSE SEND_NEAR_GAS, price)

\* account.sendMoney(receiverId, amount): one native transfer action
NativeTransfer(amount) ==
    [methodName |-> "transfer", args |-> [amount |-> amount], gas |-> 0,
     deposit |-> amount]

\* transferStorageDeposit: the transaction it signs and sends
transferStorageDeposit(contractName, receiverId, storageDepositAmount) ==
    Tx(contractName,
       <<functionCall("storage_deposit",
                      [account_id |-> receiverId, registration_only |-> TRUE],
                      FT_STORAGE_DEPOSIT_GAS, storageDepositAmount)>>)

RegisterAccount(receiverId) ==
    functionCall("register_account", [account_id |-> receiverId],
                 FT_REGISTRATION_DEPOSIT_GAS, NoDeposit)

FtTransfer(amount, memo, receiverId) ==
    functionCall("ft_transfer",
                 [amount |-> amount, memo |-> memo, receiver_id |-> receiverId],
                 FT_TRANSFER_GAS, TOKEN_TRANSFER_DEPOSIT)

\* the action list of transfer's final signAndSendTransaction
TransferActions(regRequired, a) ==
    (IF regRequired THEN <<RegisterAccount(a.receiverId)>> ELSE <<>>)
        \o <<FtTransfer(a.amount, a.memo, a.receiverId)>>

\* the action list of wrapNear: `if (!storage) actions.unshift(storage_deposit)`
WrapActions(toWNear, wrapAmount, storage) ==
    LET main == functionCall(IF toWNear THEN "near_deposit" ELSE "near_withdraw",
                             IF toWNear THEN [none |-> TRUE]
                                        ELSE [amount |-> wrapAmount],
                             FT_STORAGE_DEPOSIT_GAS,
                             IF toWNear THEN wrapAmount ELSE TOKEN_TRANSFER_DEPOSIT)
    IN  IF storage.kind \in {"null", "undefined"}
        THEN <<functionCall("storage_deposit", [none |-> TRUE],
                            FT_STORAGE_DEPOSIT_GAS, WRAP_STORAGE_DEPOSIT), main>>
        ELSE <<main>>

(***************************************************************************)
(* Start of a call: the previous call has ended; what a call records is    *)
(* cleared, the TwoFactor fields are kept.                                 *)
(***************************************************************************)
Begin(a, first) ==
    /\ pc \in {"idle", "done"}
    /\ pc' = first
    /\ args' = a
    /\ txs' = <<>>
    /\ storageStatus' = Unset
    /\ registration' = "unset"
    /\ isStorageTransferRequired' = FALSE
    /\ isRegistrationRequired' = FALSE
    /\ gasPrice' = 0
    /\ result' = NoResult
    /\ posts' = <<>>
    /\ dispatched' = 0
    /\ accountState' = "unset"
    /\ delegated' = FALSE
    /\ isLedgerEnabled' = "unset"
    /\ has2faBefore' = has2fa
    /\ requestBefore' = request
    /\ UNCHANGED <<has2fa, request>>

tokenLocals == <<storageStatus, registration, isStorageTransferRequired,
                 isRegistrationRequired, gasPrice>>
twoFactorState == <<has2fa, request, posts, dispatched, accountState, delegated,
                    isLedgerEnabled, has2faBefore, requestBefore>>
callStart == <<isLedgerEnabled, has2faBefore, requestBefore>>

(***************************************************************************)
(* FungibleTokens.transfer                                                 *)
(***************************************************************************)
transfer ==
    \E accountId \in Senders, contractName \in Contracts, amount \in Amounts,
       receiverId \in Receivers, memo \in Memos :
        Begin([op |-> "transfer", accountId |-> accountId,
               contractName |-> contractName, amount |-> amount,
               receiverId |-> receiverId, memo |-> memo],
              "transfer_getAccount")

\* await wallet.getAccount(accountId); then sendMoney, or the storage query
transfer_getAccount ==
    /\ pc = "transfer_getAccount"
    /\ \E o \in Outcomes :
        IF ~o.ok
        THEN /\ result' = Threw(o.msg)
             /\ pc' = "done"
             /\ UNCHANGED txs
        ELSE IF args.contractName = "none"
        THEN /\ txs' = Append(txs, Tx(args.receiverId, <<NativeTransfer(args.amount)>>))
             /\ pc' = "transfer_sendMoney"
             /\ UNCHANGED result
        ELSE /\ pc' = "transfer_isStorageDepositRequired"
             /\ UNCHANGED <<txs, result>>
    /\ UNCHANGED <<args, tokenLocals, twoFactorState>>

\* return account.sendMoney(receiverId, amount)
transfer_sendMoney ==
    /\ pc = "transfer_sendMoney"
    /\ \E o \in Outcomes :
        /\ txs' = SettleLast(txs, o)
        /\ result' = IF o.ok THEN Returned("outcome") ELSE Threw(o.msg)
    /\ pc' = "done"
    /\ UNCHANGED <<args, tokenLocals, twoFactorState>>

\* await this.isStorageDepositRequired(...); if required, the first
\* transferStorageDeposit is submitted
transfer_isStorageDepositRequired ==
    /\ pc = "transfer_isStorageDepositRequired"
    /\ \E answer \in StorageAnswers :
        /\ storageStatus' = answer
        /\ isStorageTransferRequired' = isStorageDepositRequired(answer)
        /\ IF isStorageDepositRequired(answer)
           THEN /\ txs' = Append(txs, transferStorageDeposit(args.contractName,
                                        args.receiverId, FT_MINIMUM_STORAGE_BALANCE))
                /\ pc' = "transfer_storageDeposit"
           ELSE /\ pc' = "transfer_isAccountUnregistered"
                /\ UNCHANGED txs
    /\ UNCHANGED <<args, registration, isRegistrationRequired, gasPrice, result,
                   twoFactorState>>

\* the first transferStorageDeposit settles; its catch clause retries with
\* the larger constant or swallows the error
transfer_storageDeposit ==
    /\ pc = "transfer_storageDeposit"
    /\ \E o \in Outcomes :
        IF ~o.ok /\ retryWithLargeDeposit(o.msg)
        THEN /\ txs' = Append(SettleLast(txs, o),
                              transferStorageDeposit(args.contractName,
                                  args.receiverId, FT_MINIMUM_STORAGE_BALANCE_LARGE))
             /\ pc' = "transfer_storageDepositLarge"
        ELSE /\ txs' = SettleLast(txs, o)
             /\ pc' = "transfer_isAccountUnregistered"
    /\ UNCHANGED <<args, tokenLocals, result, twoFactorState>>

\* the retry settles; it is awaited inside the catch clause, so its error
\* leaves transfer
transfer_storageDepositLarge ==
    /\ pc = "transfer_storageDepositLarge"
    /\ \E o \in Outcomes :
        /\ txs' = SettleLast(txs, o)
        /\ IF o.ok
           THEN /\ pc' = "transfer_isAccountUnregistered"
                /\ UNCHANGED result
           ELSE /\ pc' = "done"
                /\ result' = Threw(o.msg)
    /\ UNCHANGED <<args, tokenLocals, twoFactorState>>

\* await this.isAccountUnregistered(...); the transfer transaction is
\* assembled and submitted
transfer_isAccountUnregistered ==
    /\ pc = "transfer_isAccountUnregistered"
    /\ \E answer \in RegistrationAnswers :
        /\ registration' = checkRegistration(answer)
        /\ isRegistrationRequired' = isAccountUnregistered(answer)
        /\ txs' = Append(txs, Tx(args.contractName,
                                 TransferActions(isAccountUnregistered(answer), args)))
    /\ pc' = "transfer_signAndSendTransaction"
    /\ UNCHANGED <<args, storageStatus, isStorageTransferRequired, gasPrice,
                   result, twoFactorState>>

\* return account.signAndSendTransaction({...})
transfer_signAndSendTransaction ==
    /\ pc = "transfer_signAndSendTransaction"
    /\ \E o \in Outcomes :
        /\ txs' = SettleLast(txs, o)
        /\ result' = IF o.ok THEN Returned("outcome") ELSE Threw(o.msg)
    /\ pc' = "done"
    /\ UNCHANGED <<args, tokenLocals, twoFactorState>>


(***************************************************************************)
(* FungibleTokens.getEstimatedTotalFees                                    *)
(***************************************************************************)
getEstimatedTotalFees ==
    \E accountId \in Senders \cup {"none"}, contractName \in Contracts :
        Begin([op |-> "getEstimatedTotalFees", accountId |-> accountId,
               contractName |-> contractName],
              IF contractName # "none" /\ accountId # "none"
              THEN "fees_isAccountUnregistered"
              ELSE "fees_getTotalGasFee")

\* const isRegistrationRequired = await this.isAccountUnregistered(...)
fees_isAccountUnregistered ==
    /\ pc = "fees_isAccountUnregistered"
    /\ \E answer \in RegistrationAnswers :
        /\ registration' = checkRegistration(answer)
        /\ isRegistrationRequired' = isAccountUnregistered(answer)
    /\ pc' = "fees_isStorageDepositRequired"
    /\ UNCHANGED <<args, txs, storageStatus, isStorageTransferRequired, gasPrice,
                   result, twoFactorState>>

\* const isStorageDepositRequired = await this.isStorageDepositRequired(...)
fees_isStorageDepositRequired ==
    /\ pc = "fees_isStorageDepositRequired"
    /\ \E answer \in StorageAnswers :
        /\ storageStatus' = answer
        /\ isStorageTransferRequired' = isStorageDepositRequired(answer)
    /\ pc' = "fees_getTotalGasFee"
    /\ UNCHANGED <<args, txs, registration, isRegistrationRequired, gasPrice,
                   result, twoFactorState>>

\* await getTotalGasFee(...): the oracle answers with a price, or fails
fees_getTotalGasFee ==
    /\ pc = "fees_getTotalGasFee"
    /\ \/ \E price \in 0..MaxGasPrice :
            /\ gasPrice' = price
            /\ result' = Returned(EstimatedTotalFees(
                            args.contractName # "none" /\ args.accountId # "none",
                            args.contractName # "none",
                            isRegistrationRequired, isStorageTransferRequired,
                            price))
       \/ \E m \in Messages :
            /\ result' = Threw(m)
            /\ UNCHANGED gasPrice
    /\ pc' = "done"
    /\ UNCHANGED <<args, txs, storageStatus, registration,
                   isStorageTransferRequired, isRegistrationRequired,
                   twoFactorState>>

(***************************************************************************)
(* FungibleTokens.wrapNear                                                 *)
(***************************************************************************)
wrapNear ==
    \E accountId \in Senders, wrapAmount \in Amounts, toWNear \in BOOLEAN :
        Begin([op |-> "wrapNear", accountId |-> accountId,
               wrapAmount |-> wrapAmount, toWNear |-> toWNear],
              "wrap_getAccount")

\* const account = await wallet.getAccount(accountId)
wrap_getAccount ==
    /\ pc = "wrap_getAccount"
    /\ \E o \in Outcomes :
        IF o.ok
        THEN /\ pc' = "wrap_viewFunction"
             /\ UNCHANGED result
        ELSE /\ pc' = "done"
             /\ result' = Threw(o.msg)
    /\ UNCHANGED <<args, txs, tokenLocals, twoFactorState>>

\* const storage = await account.viewFunction(NEAR_TOKEN_ID, 'storage_balance_of');
\* the action list is completed and the transaction submitted
wrap_viewFunction ==
    /\ pc = "wrap_viewFunction"
    /\ \E answer \in StorageAnswers :
        /\ storageStatus' = answer
        /\ IF answer.kind = "throw"
           THEN /\ \E m \in Messages : result' = Threw(m)
                /\ pc' = "done"
                /\ UNCHANGED txs
           ELSE /\ txs' = Append(txs, Tx(NEAR_TOKEN_ID,
                             WrapActions(args.toWNear, args.wrapAmount, answer)))
                /\ pc' = "wrap_signAndSendTransaction"
                /\ UNCHANGED result
    /\ UNCHANGED <<args, registration, isStorageTransferRequired,
                   isRegistrationRequired, gasPrice, twoFactorState>>

\* return account.signAndSendTransaction({ receiverId: NEAR_TOKEN_ID, actions })
wrap_signAndSendTransaction ==
    /\ pc = "wrap_signAndSendTransaction"
    /\ \E o \in Outcomes :
        /\ txs' = SettleLast(txs, o)
        /\ result' = IF o.ok THEN Returned("outcome") ELSE Threw(o.msg)
    /\ pc' = "done"
    /\ UNCHANGED <<args, tokenLocals, twoFactorState>>

(***************************************************************************)
(* TwoFactor                                                               *)
(***************************************************************************)
MULTISIG_CONTRACT_HASHES == {"multisigV1", "multisigV2"}
\* account.state(): absent, or a state with a code hash; or the call throws
AccountStates == {"absent", "noContract", "otherContract", "multisigV1",
                  "multisigV2", "throw"}

\* has2faEnabled, for the state the account answered
has2faEnabled(state) ==
    IF state = "absent" THEN FALSE ELSE state \in MULTISIG_CONTRACT_HASHES

\* The value tested by `if (TwoFactor.has2faEnabled(this))`: has2faEnabled is
\* async and is not awaited, so the value is its promise, an object (a
\* rejected one when account.state() throws).
Promise(settlesTo) == [type |-> "object", settlesTo |-> settlesTo]
Truthy(v) == IF v.type = "boolean" THEN v.settlesTo ELSE TRUE

NoRequest == [requestId |-> -1, accountId |-> "undefined"]
Requests ==
    {NoRequest} \cup {[requestId |-> i, accountId |-> a] :
                        i \in 0..MaxRequestId, a \in Senders}
Methods == {"email", "phone"}

get2faMethod ==
    Begin([op |-> "get2faMethod"], "get2faMethod_test")

\* if (TwoFactor.has2faEnabled(this)) return super.get2faMethod(); return null
get2faMethod_test ==
    /\ pc = "get2faMethod_test"
    /\ \E state \in AccountStates :
        /\ accountState' = state
        /\ IF Truthy(Promise(IF state = "throw" THEN "rejected"
                              ELSE IF has2faEnabled(state) THEN "true" ELSE "false"))
           THEN /\ delegated' = TRUE
                /\ pc' = "get2faMethod_super"
                /\ UNCHANGED result
           ELSE /\ result' = Returned("null")
                /\ pc' = "done"
                /\ UNCHANGED delegated
    /\ UNCHANGED <<args, txs, tokenLocals, has2fa, request, posts, dispatched,
                   callStart>>

\* return super.get2faMethod()
get2faMethod_super ==
    /\ pc = "get2faMethod_super"
    /\ \/ \E m \in Methods \cup {"null"} : result' = Returned(m)
       \/ \E m \in Messages : result' = Threw(m)
    /\ pc' = "done"
    /\ UNCHANGED <<args, txs, tokenLocals, twoFactorState>>

initTwoFactor ==
    \E accountId \in Senders, method \in Methods :
        Begin([op |-> "initTwoFactor", accountId |-> accountId, method |-> method],
              "initTwoFactor_isLedgerEnabled")

initTwoFactor_isLedgerEnabled_unchecked ==
    /\ pc = "initTwoFactor_isLedgerEnabled"
    /\ \/ \E answer \in BOOLEAN :
            /\ isLedgerEnabled' = IF answer THEN "true" ELSE "false"
            /\ request' = NoRequest
            /\ posts' = Append(posts, [path |-> "/2fa/init",
                                       accountId |-> args.accountId,
                                       method |-> args.method,
                                       requestAtPost |-> request'])
            /\ pc' = "initTwoFactor_postSignedJson"
            /\ UNCHANGED result
       \/ \E m \in Messages :
            /\ isLedgerEnabled' = "throw"
            /\ result' = Threw(m)
            /\ pc' = "done"
            /\ UNCHANGED <<request, posts>>
    /\ UNCHANGED <<args, txs, tokenLocals, has2fa, dispatched, accountState,
                   delegated, has2faBefore, requestBefore>>

\* const isLedgerEnabled = await this.wallet.isLedgerEnabled(); throw when
\* enabled; else setRequest({ requestId: -1 }) and post to /2fa/init
initTwoFactor_isLedgerEnabled ==
    /\ pc = "initTwoFactor_isLedgerEnabled"
    /\ \/ \E answer \in BOOLEAN :
            /\ isLedgerEnabled' = IF answer THEN "true" ELSE "false"
            /\ IF answer
               THEN /\ result' = Threw(LedgerEnabledMessage)
                    /\ pc' = "done"
                    /\ UNCHANGED <<request, posts>>
               ELSE /\ request' = NoRequest
                    /\ posts' = Append(posts, [path |-> "/2fa/init",
                                               accountId |-> args.accountId,
                                               method |-> args.method,
                                               requestAtPost |-> request'])
                    /\ pc' = "initTwoFactor_postSignedJson"
                    /\ UNCHANGED result
       \/ \E m \in Messages :
            /\ isLedgerEnabled' = "throw"
            /\ result' = Threw(m)
            /\ pc' = "done"
            /\ UNCHANGED <<request, posts>>
    /\ UNCHANGED <<args, txs, tokenLocals, has2fa, dispatched, accountState,
                   delegated, has2faBefore, requestBefore>>

\* return await this.wallet.postSignedJson('/2fa/init', {...})
initTwoFactor_postSignedJson ==
    /\ pc = "initTwoFactor_postSignedJson"
    /\ \E o \in Outcomes :
        result' = IF o.ok THEN Returned("response") ELSE Threw(o.msg)
    /\ pc' = "done"
    /\ UNCHANGED <<args, txs, tokenLocals, twoFactorState>>

deployMultisig ==
    Begin([op |-> "deployMultisig"], "deployMultisig_fetch")

\* const contractBytes = ... await fetch('/multisig.wasm') ...
deployMultisig_fetch ==
    /\ pc = "deployMultisig_fetch"
    /\ \E o \in Outcomes :
        IF o.ok
        THEN /\ pc' = "deployMultisig_super"
             /\ UNCHANGED result
        ELSE /\ pc' = "done"
             /\ result' = Threw(o.msg)
    /\ UNCHANGED <<args, txs, tokenLocals, twoFactorState>>

\* await super.deployMultisig(contractBytes); this.has2fa = true
deployMultisig_super ==
    /\ pc = "deployMultisig_super"
    /\ \E o \in Outcomes :
        IF o.ok
        THEN /\ has2fa' = TRUE
             /\ result' = Returned("undefined")
        ELSE /\ result' = Threw(o.msg)
             /\ UNCHANGED has2fa
    /\ pc' = "done"
    /\ UNCHANGED <<args, txs, tokenLocals, request, posts, dispatched,
                   accountState, delegated, callStart>>

disableMultisig ==
    Begin([op |-> "disableMultisig"], "disableMultisig_fetch")

\* the two fetches of '/main.wasm' and '/state_cleanup.wasm'
disableMultisig_fetch ==
    /\ pc = "disableMultisig_fetch"
    /\ \E o \in Outcomes :
        IF o.ok
        THEN /\ pc' = "disableMultisig_disable"
             /\ UNCHANGED result
        ELSE /\ pc' = "done"
             /\ result' = Threw(o.msg)
    /\ UNCHANGED <<args, txs, tokenLocals, twoFactorState>>

cooldownError_never(msg) == FALSE

\* e.message.includes('too large to be viewed')
cooldownError(msg) == includes(msg, TooLargeToBeViewed)

\* try { result = await this.disable(...) } catch (e) { if (...) throw new Error(...) }
\* txs records the disable call and how it ended
disableMultisig_disable ==
    /\ pc = "disableMultisig_disable"
    /\ \E o \in Outcomes :
        /\ txs' = Append(txs, Settled(Tx("disable", <<>>), o))
        /\ IF ~o.ok /\ cooldownError(o.msg)
           THEN /\ result' = Threw(WaitFifteenMinutes)
                /\ pc' = "done"
           ELSE \* success, or an error that the catch clause does not rethrow
                /\ pc' = "disableMultisig_refreshAccount"
                /\ UNCHANGED result
    /\ UNCHANGED <<args, tokenLocals, twoFactorState>>

\* await store.dispatch(refreshAccount()); this.has2fa = false; return result
disableMultisig_refreshAccount ==
    /\ pc = "disableMultisig_refreshAccount"
    /\ dispatched' = dispatched + 1
    /\ \E o \in Outcomes :
        IF o.ok
        THEN /\ has2fa' = FALSE
             /\ result' = Returned(IF txs[1].status = "ok" THEN "outcome"
                                   ELSE "undefined")
        ELSE /\ result' = Threw(o.msg)
             /\ UNCHANGED has2fa
    /\ pc' = "done"
    /\ UNCHANGED <<args, txs, tokenLocals, request, posts, accountState,
                   delegated, callStart>>

(***************************************************************************)
(* Specifications.  FungibleTokens and TwoFactor share no state, so each   *)
(* is explored on its own.                                                 *)
(***************************************************************************)
Quiet ==
    /\ pc = "idle"
    /\ args = NoArgs
    /\ txs = <<>>
    /\ storageStatus = Unset
    /\ registration = "unset"
    /\ isStorageTransferRequired = FALSE
    /\ isRegistrationRequired = FALSE
    /\ gasPrice = 0
    /\ result = NoResult
    /\ posts = <<>>
    /\ dispatched = 0
    /\ accountState = "unset"
    /\ delegated = FALSE
    /\ isLedgerEnabled = "unset"

\* the fungibleTokensService singleton; the TwoFactor fields play no part
Init ==
    /\ Quiet
    /\ has2fa = FALSE
    /\ request = NoRequest
    /\ has2faBefore = has2fa
    /\ requestBefore = request

Next ==
    \/ transfer
    \/ transfer_getAccount
    \/ transfer_sendMoney
    \/ transfer_isStorageDepositRequired
    \/ transfer_storageDeposit
    \/ transfer_storageDepositLarge
    \/ transfer_isAccountUnregistered
    \/ transfer_signAndSendTransaction
    \/ getEstimatedTotalFees
    \/ fees_isAccountUnregistered
    \/ fees_isStorageDepositRequired
    \/ fees_getTotalGasFee
    \/ wrapNear
    \/ wrap_getAccount
    \/ wrap_viewFunction
    \/ wrap_signAndSendTransaction

Spec == Init /\ [][Next]_vars

\* new TwoFactor(wallet, accountId, has2fa = false); localStorage holds
\* whatever request an earlier session left
InitTwoFactor ==
    /\ Quiet
    /\ has2fa \in BOOLEAN
    /\ request \in Requests
    /\ has2faBefore = has2fa
    /\ requestBefore = request

NextTwoFactor ==
    \/ get2faMethod
    \/ get2faMethod_test
    \/ get2faMethod_super
    \/ initTwoFactor
    \/ initTwoFactor_isLedgerEnabled
    \/ initTwoFactor_postSignedJson
    \/ deployMultisig
    \/ deployMultisig_fetch
    \/ deployMultisig_super
    \/ disableMultisig
    \/ disableMultisig_fetch
    \/ disableMultisig_disable
    \/ disableMultisig_refreshAccount

SpecTwoFactor == InitTwoFactor /\ [][NextTwoFactor]_vars


(***************************************************************************)
(* Properties.                                                             *)
(***************************************************************************)
HasAction(tx, methodName) ==
    \E i \in DOMAIN tx.actions : tx.actions[i].methodName = methodName

IsStorageDepositTx(tx) ==
    Len(tx.actions) = 1 /\ tx.actions[1].methodName = "storage_deposit"

InTokenTransfer == args.op = "transfer" /\ args.contractName # "none"

StorageDepositCount == Cardinality({i \in DOMAIN txs : IsStorageDepositTx(txs[i])})

\* C1: in a token transfer, the transaction carrying ft_transfer is the last
\* one submitted, every transaction before it is a storage deposit that has
\* already settled, and its action list is exactly
\* [register_account(receiver), ft_transfer(amount, memo)] when
\* checkRegistration returned exactly false and exactly [ft_transfer(amount,
\* memo)] otherwise (true, null, any other value, or a failed check).
C1_TransferAfterDepositsWithExactActions ==
    InTokenTransfer =>
        \A i \in DOMAIN txs :
            (HasAction(txs[i], "ft_transfer") \/ HasAction(txs[i], "register_account")) =>
                /\ i = Len(txs)
                /\ \A j \in 1..(i - 1) :
                      IsStorageDepositTx(txs[j]) /\ txs[j].status # "pending"
                /\ registration # "unset"
                /\ txs[i].receiverId = args.contractName
                /\ txs[i].actions =
                      IF registration = "false"
                      THEN <<RegisterAccount(args.receiverId),
                             FtTransfer(args.amount, args.memo, args.receiverId)>>
                      ELSE <<FtTransfer(args.amount, args.memo, args.receiverId)>>

\* C1 witness: a transfer that submitted both storage deposits and then
\* [register_account, ft_transfer], all settled
C1_Witness ==
    /\ InTokenTransfer
    /\ pc = "done"
    /\ Len(txs) = 3
    /\ registration = "false"
    /\ Len(txs[3].actions) = 2
    /\ txs[3].status = "ok"

\* C2: in a token transfer, whenever a storage-deposit submission failed
\* (the first attempt or the retry), the failure is not surfaced and the
\* ft_transfer transaction was still submitted by the end of the call.
C2_StorageDepositFailureNeverBlocks ==
    (/\ InTokenTransfer
     /\ pc = "done"
     /\ \E i \in DOMAIN txs : IsStorageDepositTx(txs[i]) /\ txs[i].status = "failed")
        => HasAction(txs[Len(txs)], "ft_transfer")

\* C3: within one transfer the storage deposit is submitted at most twice,
\* first with FT_MINIMUM_STORAGE_BALANCE, and a second time, with
\* FT_MINIMUM_STORAGE_BALANCE_LARGE, exactly when the first submission failed
\* with a message containing 'attached deposit is less than'; none is
\* submitted when isStorageDepositRequired answered false.
C3_StorageDepositAtMostTwice ==
    InTokenTransfer =>
        LET n == StorageDepositCount
        IN  /\ n <= 2
            /\ \A i \in 1..n : IsStorageDepositTx(txs[i])
            /\ n >= 1 => txs[1].actions[1].deposit = FT_MINIMUM_STORAGE_BALANCE
            /\ n = 2 => txs[2].actions[1].deposit = FT_MINIMUM_STORAGE_BALANCE_LARGE
            /\ n >= 1 =>
                  (n = 2 <=> /\ txs[1].status = "failed"
                             /\ includes(txs[1].msg, DepositLessThan))
            /\ ~isStorageTransferRequired => n = 0

\* C3 witness: a transfer whose first deposit failed with the text inside a
\* longer message and was retried with the larger constant
C3_Witness ==
    /\ InTokenTransfer
    /\ pc = "done"
    /\ StorageDepositCount = 2
    /\ txs[1].msg = <<"other", "DEPOSIT_LESS">>

\* C4: disableMultisig dispatches the refresh and changes has2fa only when
\* the disable call succeeded; when it fails with a message that does not
\* contain 'too large to be viewed' the original error reaches the caller
\* and has2fa keeps its value.
C4_DisableFailurePropagates ==
    (args.op = "disableMultisig" /\ pc = "done" /\ txs # <<>>) =>
        /\ (dispatched > 0 \/ has2fa # has2faBefore) => txs[1].status = "ok"
        /\ (txs[1].status = "failed" /\ ~includes(txs[1].msg, TooLargeToBeViewed)) =>
              /\ result = Threw(txs[1].msg)
              /\ has2fa = has2faBefore

\* C5: when the disable call fails with a message containing 'too large to
\* be viewed', disableMultisig ends at once with the fixed 15-minute-wait
\* error, without dispatching the refresh and without changing has2fa.
C5_CooldownErrorReplacesOriginal ==
    (/\ args.op = "disableMultisig"
     /\ txs # <<>>
     /\ txs[1].status = "failed"
     /\ includes(txs[1].msg, TooLargeToBeViewed))
        => /\ pc = "done"
           /\ result = Threw(WaitFifteenMinutes)
           /\ result.msg # txs[1].msg
           /\ dispatched = 0
           /\ has2fa = has2faBefore

\* C5 witness: a disable of an account with 2FA on that hit the size limit
C5_Witness ==
    /\ args.op = "disableMultisig"
    /\ pc = "done"
    /\ txs # <<>>
    /\ txs[1].msg = <<"other", "TOO_LARGE">>
    /\ has2faBefore
    /\ result = Threw(WaitFifteenMinutes)

\* C6: with the Ledger signer enabled initTwoFactor ends with the Ledger
\* error, the stored request untouched and nothing posted; otherwise the
\* request is {requestId: -1} when /2fa/init is posted and stays so whether
\* or not the post succeeds; nothing is posted in any other case.
C6_InitTwoFactorFailsFastOnLedger ==
    args.op = "initTwoFactor" =>
        /\ isLedgerEnabled = "true" =>
              /\ pc = "done"
              /\ result = Threw(LedgerEnabledMessage)
              /\ request = requestBefore
              /\ posts = <<>>
        /\ isLedgerEnabled = "false" =>
              /\ request.requestId = -1
              /\ Len(posts) = 1
              /\ posts[1].path = "/2fa/init"
              /\ posts[1].requestAtPost.requestId = -1
        /\ posts # <<>> => isLedgerEnabled = "false"

\* C6 witness: a pending request was cleared and the post then failed
C6_Witness ==
    /\ args.op = "initTwoFactor"
    /\ pc = "done"
    /\ isLedgerEnabled = "false"
    /\ requestBefore.requestId # -1
    /\ result.kind = "threw"
    /\ request.requestId = -1

\* C7: for one gas price, the fee when registration is required is
\* gasFee(transferGas + registrationGas) + registrationDeposit, also when a
\* storage deposit is required too, and is strictly greater than the fee
\* when only a storage deposit is required, which is strictly greater than
\* the fee when neither is.
C7_FeesStrictlyOrdered ==
    (/\ args.op = "getEstimatedTotalFees"
     /\ pc = "done"
     /\ result.kind = "returned"
     /\ args.contractName # "none"
     /\ args.accountId # "none")
        => LET regFee == getTotalGasFee(FT_TRANSFER_GAS + FT_REGISTRATION_DEPOSIT_GAS,
                                        gasPrice) + FT_REGISTRATION_DEPOSIT
               storFee == getTotalGasFee(FT_TRANSFER_GAS + FT_STORAGE_DEPOSIT_GAS,
                                         gasPrice) + FT_MINIMUM_STORAGE_BALANCE
               noneFee == getTotalGasFee(FT_TRANSFER_GAS, gasPrice)
           IN  /\ isRegistrationRequired =>
                     result.value = regFee /\ result.value > storFee
               /\ (~isRegistrationRequired /\ isStorageTransferRequired) =>
                     /\ result.value = storFee
                     /\ result.value < regFee
                     /\ result.value > noneFee
               /\ (~isRegistrationRequired /\ ~isStorageTransferRequired) =>
                     result.value = noneFee /\ result.value < storFee

\* C7 witness: an estimate with both registration and storage deposit required
C7_Witness ==
    /\ args.op = "getEstimatedTotalFees"
    /\ pc = "done"
    /\ result.kind = "returned"
    /\ isRegistrationRequired
    /\ isStorageTransferRequired
    /\ gasPrice = MaxGasPrice

\* C8: wrapNear submits [storage_deposit(fixed constant), near_deposit] when
\* toWNear is true and the account has no storage balance, and in every
\* other case only the near_deposit / near_withdraw action.
C8_WrapStorageDepositOnlyWhenDepositing ==
    (args.op = "wrapNear" /\ txs # <<>>) =>
        LET noStorage == storageStatus.kind \in {"null", "undefined"}
            names == [i \in DOMAIN txs[1].actions |-> txs[1].actions[i].methodName]
        IN  /\ Len(txs) = 1
            /\ names = IF args.toWNear /\ noStorage
                       THEN <<"storage_deposit", "near_deposit">>
                       ELSE IF args.toWNear THEN <<"near_deposit">>
                       ELSE <<"near_withdraw">>
            /\ (args.toWNear /\ noStorage) =>
                  txs[1].actions[1].deposit = WRAP_STORAGE_DEPOSIT

\* C9: isStorageDepositRequired answers false when storage_balance_of fails
\* and otherwise true exactly when the status has no `total` (a null status
\* included); a transfer whose storage query failed goes on to the transfer
\* without submitting any storage deposit.
C9_StorageCheckFailsOpen ==
    (args.op \in {"transfer", "getEstimatedTotalFees"} /\ storageStatus # Unset) =>
        /\ storageStatus.kind = "throw" =>
              /\ ~isStorageTransferRequired
              /\ StorageDepositCount = 0
              /\ pc \in {"transfer_isAccountUnregistered",
                         "transfer_signAndSendTransaction",
                         "fees_getTotalGasFee", "done"}
              /\ (args.op = "transfer" /\ pc = "done") =>
                    Len(txs) = 1 /\ HasAction(txs[1], "ft_transfer")
        /\ storageStatus.kind # "throw" =>
              (isStorageTransferRequired <=>
                  (storageStatus.kind = "null" \/ storageStatus.total = "undefined"))

\* C9 witness: a transfer completed although its storage query failed
C9_Witness ==
    /\ InTokenTransfer
    /\ pc = "done"
    /\ storageStatus.kind = "throw"
    /\ Len(txs) = 1
    /\ txs[1].status = "ok"

\* C10: get2faMethod returns null without calling super.get2faMethod()
\* whenever the account state is absent or its code hash is not a known
\* multisig hash, and delegates only when has2faEnabled is true.
C10_Get2faMethodNullWhenDisabled ==
    (args.op = "get2faMethod" /\ pc = "done") =>
        /\ accountState \in {"absent", "noContract", "otherContract"} =>
              ~delegated /\ result = Returned("null")
        /\ delegated => accountState \in MULTISIG_CONTRACT_HASHES


====
